---------------------------- MODULE Spec2Model ----------------------------
(***************************************************************************)
(* The IndexChain block / transaction decoder of                           *)
(* bchain/coins/indexchain/indexchainparser.go as a state machine.         *)
(*                                                                         *)
(* Every operation of the parser is a synchronous call on caller-owned     *)
(* data, so a behaviour is: the caller picks a call and its arguments      *)
(* (Init), the call runs to completion (one action per operation).         *)
(* parseIndexTx mutates its argument in place and may be applied again to  *)
(* the mutated transaction.                                                *)
(*                                                                         *)
(* A reader (bytes.Reader) is the pair (b, pos): the buffer and the number *)
(* of bytes already consumed.  Bytes are 0..255.  Fixed-width integers are *)
(* decoded little-endian.  A length read from the stream is an unsigned 64 *)
(* bit value; the model keeps it exactly while it is below 2^31 and        *)
(* otherwise keeps the class it falls in (see VarIntValue).                *)
(***************************************************************************)
EXTENDS Integers, Sequences, FiniteSets, TLC

VARIABLES
    pc,     \* "ready": the call has not run yet; "done": it has returned or panicked
    call,   \* the operation called and its arguments
    ret     \* what the call produced

vars == <<pc, call, ret>>

(***************************************************************************)
(* Program constants                                                       *)
(***************************************************************************)
OpZeroCoinMint == 193     \* 0xc1
OpZeroCoinSpend == 194    \* 0xc2
OpSigmaMint == 195        \* 0xc3
OpSigmaSpend == 196       \* 0xc4

GenesisBlockTime == 1414776286

SpendTxID == "0000000000000000000000000000000000000000000000000000000000000000"

(***************************************************************************)
(* Bounds of the model                                                     *)
(***************************************************************************)
MaxRest == 3      \* free bytes enumerated after the fixed header
MaxVin == 2       \* inputs of an enumerated transaction
MaxPasses == 2    \* applications of parseIndexTx to one transaction
MaxTxs == 2       \* transactions encoded in a generated block
MaxDesc == 2      \* bytes of an enumerated address descriptor
MaxVout == 2      \* outputs of an enumerated JSON transaction

(***************************************************************************)
(* Bytes and little-endian integers                                        *)
(***************************************************************************)
\* a nil error
Nil == "nil"

\* a nil pointer: no header, no block, no transaction
NilPtr == <<>>

Fill(v, n) == [i \in 1..n |-> v]

Take(s, n) == SubSeq(s, 1, IF n < Len(s) THEN n ELSE Len(s))

Drop(s, n) == SubSeq(s, n + 1, Len(s))

AllZero(bs) == \A i \in 1..Len(bs) : bs[i] = 0

\* the value of the little-endian bytes bs.  The inputs of the model keep
\* every field decoded with it below 2^31 (TLC reports an overflow otherwise).
RECURSIVE LEValue(_)
LEValue(bs) == IF bs = <<>> THEN 0 ELSE Head(bs) + 256 * LEValue(Tail(bs))

\* the w little-endian bytes of v
RECURSIVE LEBytes(_, _)
LEBytes(v, w) == IF w = 0 THEN <<>> ELSE <<v % 256>> \o LEBytes(v \div 256, w - 1)

\* bytes.Reader under io.ReadFull(r, buf) with len(buf) = n: the bytes, the
\* error and the position afterwards.  n = 0 reads nothing and succeeds; at
\* the end of the buffer the error is io.EOF, after a partial read it is
\* io.ErrUnexpectedEOF, and the bytes that were there are consumed.
ReadFull(b, pos, n) ==
    IF n = 0 THEN [err |-> Nil, bytes |-> <<>>, pos |-> pos]
    ELSE IF Len(b) - pos >= n
         THEN [err |-> Nil, bytes |-> SubSeq(b, pos + 1, pos + n), pos |-> pos + n]
         ELSE [err |-> IF Len(b) - pos <= 0 THEN "EOF" ELSE "ErrUnexpectedEOF",
               bytes |-> <<>>, pos |-> Len(b)]

(***************************************************************************)
(* wire.ReadVarInt: the compact-size integer.                              *)
(***************************************************************************)
\* An unsigned 64 bit value given by up to 8 little-endian bytes:
\*   cls "num"  : below 2^31, n is the value;
\*   cls "big"  : 2^31 .. 2^56 - 1;
\*   cls "huge" : 2^56 and above.
VarIntValue(bs) ==
    LET w == Len(bs)
        hi == IF w > 4 THEN SubSeq(bs, 5, w) ELSE <<>>
    IN  IF w = 8 /\ bs[8] # 0 THEN [cls |-> "huge", n |-> 0]
        ELSE IF ~AllZero(hi) \/ (w >= 4 /\ bs[4] >= 128) THEN [cls |-> "big", n |-> 0]
        ELSE [cls |-> "num", n |-> LEValue(Take(bs, 4))]

\* v < m for a value v and a bound m below 2^31
ValueBelow(v, m) == v.cls = "num" /\ v.n < m

VarIntWidth(d) == IF d = 255 THEN 8 ELSE IF d = 254 THEN 4 ELSE IF d = 253 THEN 2 ELSE 0

\* the smallest value the discriminant d may carry (canonical encoding);
\* for d = 0xff it is 2^32: the value is below it iff its upper four bytes are 0
NonCanonical(d, bs) ==
    CASE d = 255 -> AllZero(SubSeq(bs, 5, 8))
      [] d = 254 -> AllZero(SubSeq(bs, 3, 4))
      [] d = 253 -> bs[2] = 0 /\ bs[1] < 253
      [] OTHER -> FALSE

\* the one element of a singleton.  The decoders chain their reads through
\* bound variables (x \in {e}), so that each read is stated once.
The(S) == CHOOSE x \in S : TRUE

VarIntResult(err, val, pos) == [err |-> err, val |-> val, pos |-> pos]

NoLen == [cls |-> "num", n |-> 0]

\* the bytes after a discriminant of 0xfd, 0xfe or 0xff
ReadVarIntWide(disc, r) ==
    IF r.err # Nil THEN VarIntResult(r.err, NoLen, r.pos)
    ELSE IF NonCanonical(disc, r.bytes) THEN VarIntResult("NonCanonicalVarInt", NoLen, r.pos)
    ELSE VarIntResult(Nil, VarIntValue(r.bytes), r.pos)

ReadVarIntFrom(b, d) ==
    IF d.err # Nil THEN VarIntResult(d.err, NoLen, d.pos)
    ELSE IF VarIntWidth(d.bytes[1]) = 0
    THEN VarIntResult(Nil, [cls |-> "num", n |-> d.bytes[1]], d.pos)
    ELSE The({ReadVarIntWide(d.bytes[1], r) :
                 r \in {ReadFull(b, d.pos, VarIntWidth(d.bytes[1]))}})

ReadVarInt(b, pos) == The({ReadVarIntFrom(b, d) : d \in {ReadFull(b, pos, 1)}})

\* wire.WriteVarInt for values below 2^16 (what the generated blocks use)
WriteVarInt(v) == IF v < 253 THEN <<v>> ELSE <<253>> \o LEBytes(v, 2)

\* make([]T, n) for an unsigned 64 bit n: the runtime panics ("makeslice: len
\* out of range") when n elements exceed the largest allocation.  That is
\* certain from 2^56 on, cannot happen below 2^31 for the element types used
\* here, and in between depends on the element size and the platform, which
\* fits says.
MakePanics(v, fits) == v.cls = "huge" \/ (v.cls = "big" /\ ~fits)

(***************************************************************************)
(* wire.BlockHeader.Deserialize: the fixed 80 byte header.                 *)
(***************************************************************************)
HeaderFieldOffsets == {0, 4, 36, 68, 72, 76}

HeaderLen == 4 + 32 + 32 + 4 + 4 + 4

Deserialize(b, pos) ==
    LET avail == Len(b) - pos
    IN  IF avail >= HeaderLen
        THEN LET f(o, w) == SubSeq(b, pos + o + 1, pos + o + w)
             IN  [err |-> Nil, pos |-> pos + HeaderLen,
                  h |-> [Version |-> LEValue(f(0, 4)), PrevBlock |-> f(4, 32),
                         MerkleRoot |-> f(36, 32), Timestamp |-> LEValue(f(68, 4)),
                         Bits |-> LEValue(f(72, 4)), Nonce |-> LEValue(f(76, 4))]]
        ELSE [err |-> IF avail \in HeaderFieldOffsets THEN "EOF" ELSE "ErrUnexpectedEOF",
              pos |-> Len(b), h |-> NilPtr]

\* BlockHeader.Serialize, for the generated buffers
HeaderBytes(h) ==
    LEBytes(h.Version, 4) \o h.PrevBlock \o h.MerkleRoot \o LEBytes(h.Timestamp, 4)
        \o LEBytes(h.Bits, 4) \o LEBytes(h.Nonce, 4)

(***************************************************************************)
(* parseBlockHeader                                                        *)
(***************************************************************************)
\* kind: "ok" (h, nil), "err" (nil, err) or "panic".  sigRead says whether the
\* trailer length was read, sigLen is the declared length, sigBytes the number
\* of trailer bytes taken from the stream.
HdrResult(kind, err, h, pos, sigRead, sigLen, sigBytes) ==
    [kind |-> kind, err |-> err, h |-> h, pos |-> pos, sigRead |-> sigRead,
     sigLen |-> sigLen, sigBytes |-> sigBytes]

\* the nonce == 0 branch, after the trailer length was read
parseBlockSig(b, h, sigLength, fits) ==
    IF sigLength.err # Nil
    THEN HdrResult("err", sigLength.err, NilPtr, sigLength.pos, TRUE, NoLen, 0)
    ELSE IF MakePanics(sigLength.val, fits)
    THEN HdrResult("panic", Nil, NilPtr, sigLength.pos, TRUE, sigLength.val, 0)
    ELSE IF sigLength.val.cls # "num"
    \* more bytes than any buffer holds: ReadFull takes what is there
    THEN HdrResult("err", IF Len(b) = sigLength.pos THEN "EOF" ELSE "ErrUnexpectedEOF",
                   NilPtr, Len(b), TRUE, sigLength.val, Len(b) - sigLength.pos)
    ELSE The({IF sig.err # Nil
              THEN HdrResult("err", sig.err, NilPtr, sig.pos, TRUE, sigLength.val,
                             sig.pos - sigLength.pos)
              ELSE HdrResult("ok", Nil, h, sig.pos, TRUE, sigLength.val, sigLength.val.n) :
                 sig \in {ReadFull(b, sigLength.pos, sigLength.val.n)}})

\* parseBlockHeader reading the trailer whatever the nonce
parseBlockHeaderFrom_AnyNonce(b, d, fits) ==
    IF d.err # Nil THEN HdrResult("err", d.err, NilPtr, d.pos, FALSE, NoLen, 0)
    ELSE The({parseBlockSig(b, d.h, sigLength, fits) : sigLength \in {ReadVarInt(b, d.pos)}})

parseBlockHeaderFrom(b, d, fits) ==
    IF d.err # Nil THEN HdrResult("err", d.err, NilPtr, d.pos, FALSE, NoLen, 0)
    ELSE IF d.h.Nonce = 0
    THEN The({parseBlockSig(b, d.h, sigLength, fits) : sigLength \in {ReadVarInt(b, d.pos)}})
    ELSE HdrResult("ok", Nil, d.h, d.pos, FALSE, NoLen, 0)

parseBlockHeader(b, pos, fits) ==
    The({parseBlockHeaderFrom(b, d, fits) : d \in {Deserialize(b, pos)}})

(***************************************************************************)
(* Inputs                                                                  *)
(***************************************************************************)
ByteAlphabet == {0, 1, 3, 253, 254, 255}

RECURSIVE SeqsUpTo(_, _)
SeqsUpTo(S, n) ==
    IF n = 0 THEN {<<>>}
    ELSE LET shorter == SeqsUpTo(S, n - 1)
         IN  shorter \cup {Append(s, x) : s \in {t \in shorter : Len(t) = n - 1}, x \in S}

Headers ==
    {[Version |-> 1, PrevBlock |-> Fill(0, 32), MerkleRoot |-> Fill(0, 32),
      Timestamp |-> t, Bits |-> 0, Nonce |-> n] :
        t \in {0, GenesisBlockTime}, n \in {0, 1, 16777216}}

\* a run of equal bytes long enough for a three byte length to be honoured
Pads == {<<>>} \cup {Fill(v, n) : v \in {0, 255}, n \in {252, 253}}

StreamBuffers ==
    {HeaderBytes(h) \o rest \o pad : h \in Headers, rest \in SeqsUpTo(ByteAlphabet, MaxRest),
                                      pad \in Pads}
    \cup {Take(HeaderBytes(h), n) : h \in Headers, n \in {0, 4, 79}}

(***************************************************************************)
(* Transactions (bchain.Tx, bchain.Vin, bchain.Vout) and parseIndexTx      *)
(***************************************************************************)
\* SpendAsCoinbase without "vin.Sequence = 0"
SpendAsCoinbase_KeepSequence(vin) ==
    [vin EXCEPT !.Coinbase = vin.Txid, !.Txid = "", !.Vout = 0]

\* the in-place rewrite of one input
SpendAsCoinbase(vin) ==
    [vin EXCEPT !.Coinbase = vin.Txid, !.Txid = "", !.Sequence = 0, !.Vout = 0]

\* parseIndexTx with "vin.Vout = 0" after the if instead of inside it
parseIndexTx_ResetOutside(tx) ==
    [tx EXCEPT !.Vin = [i \in 1..Len(tx.Vin) |->
                            IF tx.Vin[i].Txid = SpendTxID
                            THEN SpendAsCoinbase(tx.Vin[i])
                            ELSE [tx.Vin[i] EXCEPT !.Vout = 0]]]

\* parseIndexTx without the test of vin.Txid
parseIndexTx_NoTest(tx) ==
    [tx EXCEPT !.Vin = [i \in 1..Len(tx.Vin) |-> SpendAsCoinbase(tx.Vin[i])]]

parseIndexTx(tx) ==
    [tx EXCEPT !.Vin = [i \in 1..Len(tx.Vin) |->
                            IF tx.Vin[i].Txid = SpendTxID
                            THEN SpendAsCoinbase(tx.Vin[i])
                            ELSE tx.Vin[i]]]

\* the string the specification gives for the sentinel: 68 zero characters
Zeros68 == SpendTxID \o "0000"

RealTxID == "4a5e1e4baab89f3a32518a88c31bc87f618f76673e2cc77ab2127b7afdeda33b"

\* an input either names a previous output or carries a coinbase marker
VinChoices ==
    {[Coinbase |-> "", Txid |-> t, Vout |-> n, ScriptSig |-> "c2", Sequence |-> q] :
        t \in {SpendTxID, Zeros68, RealTxID}, n \in {0, 1}, q \in {0, 5}}
    \cup {[Coinbase |-> "04ffff001d", Txid |-> "", Vout |-> 0, ScriptSig |-> "",
           Sequence |-> q] : q \in {0, 5}}

NoJson == <<>>

VoutChoices ==
    {<<>>,
     <<[ValueSat |-> 7, JsonValue |-> NoJson, N |-> 0, ScriptPubKey |-> "c1"]>>}

Txs ==
    {[Version |-> 1, LockTime |-> 0, Vin |-> vin, Vout |-> vout] :
        vin \in SeqsUpTo(VinChoices, MaxVin), vout \in VoutChoices}

(***************************************************************************)
(* GetAddressesFromAddrDesc                                                *)
(***************************************************************************)
\* p.OutputScriptToAddressesFunc is a collaborator: what it answers for the
\* descriptor is an input of the call (resolver), and calls counts how often
\* it was asked.
AddrResult(addresses, searchable, err, calls) ==
    [addresses |-> addresses, searchable |-> searchable, err |-> err, calls |-> calls]

\* GetAddressesFromAddrDesc asking the resolver first and replacing its
\* answer for the reserved opcodes
GetAddressesFromAddrDesc_ResolveFirst(addrDesc, resolver) ==
    IF Len(addrDesc) > 0 /\ addrDesc[1] = OpZeroCoinMint
    THEN AddrResult(<<"Zeromint">>, FALSE, resolver.err, 1)
    ELSE IF Len(addrDesc) > 0 /\ addrDesc[1] = OpZeroCoinSpend
    THEN AddrResult(<<"Zerospend">>, FALSE, resolver.err, 1)
    ELSE IF Len(addrDesc) > 0 /\ addrDesc[1] = OpSigmaMint
    THEN AddrResult(<<"Sigmamint">>, FALSE, resolver.err, 1)
    ELSE IF Len(addrDesc) > 0 /\ addrDesc[1] = OpSigmaSpend
    THEN AddrResult(<<"Sigmaspend">>, FALSE, resolver.err, 1)
    ELSE AddrResult(resolver.addresses, resolver.searchable, resolver.err, 1)

GetAddressesFromAddrDesc(addrDesc, resolver) ==
    IF Len(addrDesc) > 0 /\ addrDesc[1] = OpZeroCoinMint
    THEN AddrResult(<<"Zeromint">>, FALSE, Nil, 0)
    ELSE IF Len(addrDesc) > 0 /\ addrDesc[1] = OpZeroCoinSpend
    THEN AddrResult(<<"Zerospend">>, FALSE, Nil, 0)
    ELSE IF Len(addrDesc) > 0 /\ addrDesc[1] = OpSigmaMint
    THEN AddrResult(<<"Sigmamint">>, FALSE, Nil, 0)
    ELSE IF Len(addrDesc) > 0 /\ addrDesc[1] = OpSigmaSpend
    THEN AddrResult(<<"Sigmaspend">>, FALSE, Nil, 0)
    ELSE AddrResult(resolver.addresses, resolver.searchable, resolver.err, 1)

DescBytes ==
    {OpZeroCoinMint, OpZeroCoinSpend, OpSigmaMint, OpSigmaSpend, 0, 118, 192, 197}

ResolverAnswers ==
    {[addresses |-> a, searchable |-> s, err |-> Nil] :
        a \in {<<>>, <<"aBcD">>, <<"aBcD", "aEfG">>}, s \in BOOLEAN}
    \cup {[addresses |-> <<>>, searchable |-> FALSE, err |-> "ErrUnsupportedScript"]}

(***************************************************************************)
(* ParseTxFromJson                                                         *)
(***************************************************************************)
\* A json.Number is the sequence of its characters.
Digits == <<"0", "1", "2", "3", "4", "5", "6", "7", "8", "9">>

DigitValue(c) == (CHOOSE i \in 1..10 : Digits[i] = c) - 1

IsDigit(c) == \E i \in 1..10 : Digits[i] = c

RECURSIVE DecimalValue(_)
DecimalValue(s) ==
    IF s = <<>> THEN 0 ELSE 10 * DecimalValue(SubSeq(s, 1, Len(s) - 1)) + DigitValue(s[Len(s)])

\* strings.IndexByte(s, '.') + 1, 0 when there is none
IndexOfPoint(s) ==
    IF \E i \in 1..Len(s) : s[i] = "." THEN CHOOSE i \in 1..Len(s) :
        s[i] = "." /\ \A j \in 1..(i - 1) : s[j] # "."
    ELSE 0

AmountDecimalPoint == 4 + 4

\* big.Int.SetString(s, 10): an optional sign and at least one digit
SetString(s) ==
    LET signed == s # <<>> /\ s[1] \in {"+", "-"}
        digits == IF signed THEN Tail(s) ELSE s
    IN  IF digits = <<>> \/ \E i \in 1..Len(digits) : ~IsDigit(digits[i])
        THEN [ok |-> FALSE, n |-> 0]
        ELSE [ok |-> TRUE,
              n |-> IF signed /\ s[1] = "-" THEN 0 - DecimalValue(digits)
                    ELSE DecimalValue(digits)]

\* BaseParser.AmountToBigInt: shift the decimal point AmountDecimalPoint places
AmountToBigInt(n) ==
    LET i == IndexOfPoint(n)
        z == AmountDecimalPoint - Len(n) + i
        padded == IF i = 0 THEN n \o Fill("0", AmountDecimalPoint)
                  ELSE IF z > 0 THEN n \o Fill("0", z)
                  ELSE SubSeq(n, 1, Len(n) + z)
        s == IF i = 0 THEN padded ELSE SubSeq(padded, 1, i - 1) \o Drop(padded, i)
        r == SetString(s)
    IN  IF r.ok THEN [err |-> Nil, n |-> r.n]
        ELSE [err |-> "AmountToBigInt: failed to convert", n |-> 0]

\* json.Unmarshal(msg, &tx): a message is malformed or carries a document;
\* ValueSat is not a JSON field and stays zero
Unmarshal(msg) ==
    IF msg.wellformed THEN [err |-> Nil, tx |-> msg.doc]
    ELSE [err |-> "SyntaxError", tx |-> NilPtr]

\* the loop over tx.Vout: stops at the first amount that fails to convert
RECURSIVE ConvertVouts(_, _)
ConvertVouts(vouts, i) ==
    IF i > Len(vouts) THEN [err |-> Nil, vouts |-> vouts]
    ELSE LET a == AmountToBigInt(vouts[i].JsonValue)
         IN  IF a.err # Nil THEN [err |-> a.err, vouts |-> vouts]
             ELSE ConvertVouts([vouts EXCEPT ![i].ValueSat = a.n, ![i].JsonValue = NoJson],
                               i + 1)

\* ParseTxFromJson without the call of parseIndexTx
ParseTxFromJson_NoNormalize(msg) ==
    LET u == Unmarshal(msg)
    IN  IF u.err # Nil THEN [tx |-> NilPtr, err |-> u.err]
        ELSE LET c == ConvertVouts(u.tx.Vout, 1)
             IN  IF c.err # Nil THEN [tx |-> NilPtr, err |-> c.err]
                 ELSE [tx |-> [u.tx EXCEPT !.Vout = c.vouts], err |-> Nil]

ParseTxFromJson(msg) ==
    LET u == Unmarshal(msg)
    IN  IF u.err # Nil THEN [tx |-> NilPtr, err |-> u.err]
        ELSE LET c == ConvertVouts(u.tx.Vout, 1)
             IN  IF c.err # Nil THEN [tx |-> NilPtr, err |-> c.err]
                 ELSE [tx |-> parseIndexTx([u.tx EXCEPT !.Vout = c.vouts]), err |-> Nil]

JsonNumbers ==
    {NoJson, <<"1", ".", "5">>, <<"1">>, <<"0", ".", "0", "0", "0", "0", "0", "0", "0", "1">>,
     <<"1", ".", "1", "2", "3", "4", "5", "6", "7", "8", "9">>, <<"1", "e", "2">>,
     <<"-", "0", ".", "5">>}

JsonVouts == {[ValueSat |-> 0, JsonValue |-> v, N |-> 0, ScriptPubKey |-> "c1"] : v \in JsonNumbers}

JsonVins ==
    {<<>>} \cup {<<[Coinbase |-> "", Txid |-> t, Vout |-> 1, ScriptSig |-> "c2",
                   Sequence |-> 5]>> : t \in {SpendTxID, Zeros68, RealTxID}}

JsonMsgs ==
    {[wellformed |-> FALSE]}
    \cup {[wellformed |-> TRUE,
           doc |-> [Version |-> 1, LockTime |-> 0, Vin |-> vin, Vout |-> vout]] :
            vin \in JsonVins, vout \in SeqsUpTo(JsonVouts, MaxVout)}

(***************************************************************************)
(* wire.MsgTx.BtcDecode with wire.WitnessEncoding, and BitcoinParser's     *)
(* TxFromMsgTx.  A MsgTx keeps its fixed-width integers as the bytes read; *)
(* TxFromMsgTx converts them.                                              *)
(***************************************************************************)
MaxMessagePayload == 1024 * 1024 * 32

MaxTxInPerMessage == (MaxMessagePayload \div 41) + 1

MaxTxOutPerMessage == (MaxMessagePayload \div 9) + 1

MaxWitnessItemsPerInput == 500 * 1000

MaxWitnessItemSize == 11 * 1000

\* wire.ReadVarBytes: a length, at most max, and that many bytes
ReadVarBytes(b, pos, max) ==
    The({IF n.err # Nil THEN [err |-> n.err, bytes |-> <<>>, pos |-> n.pos]
         ELSE IF ~ValueBelow(n.val, max + 1)
         THEN [err |-> "ErrVarBytesTooLong", bytes |-> <<>>, pos |-> n.pos]
         ELSE ReadFull(b, n.pos, n.val.n) :
            n \in {ReadVarInt(b, pos)}})

\* a field read into the record under construction: st carries the error so
\* far, the reader's position and the fields read; r is the read, name the
\* field.  Nothing is read once an error is set.
Field(st, name, r) ==
    IF st.err # Nil THEN st
    ELSE [k \in DOMAIN st \cup {name} |->
             IF k = "err" THEN r.err ELSE IF k = "pos" THEN r.pos
             ELSE IF k = name THEN r.bytes ELSE st[k]]

Start(pos) == [err |-> Nil, pos |-> pos]

ItemResult(st, item) ==
    [err |-> st.err, pos |-> st.pos, item |-> IF st.err # Nil THEN Nil ELSE item]

\* readTxIn: outpoint hash and index, signature script, sequence
ReadTxIn(b, pos) ==
    The({ItemResult(s4, [Hash |-> s4.Hash, Index |-> s4.Index,
                         SignatureScript |-> s4.SignatureScript,
                         Sequence |-> s4.Sequence, Witness |-> <<>>]) :
          s4 \in {Field(s3, "Sequence", ReadFull(b, s3.pos, 4)) :
                   s3 \in {Field(s2, "SignatureScript",
                                 ReadVarBytes(b, s2.pos, MaxMessagePayload)) :
                            s2 \in {Field(s1, "Index", ReadFull(b, s1.pos, 4)) :
                                     s1 \in {Field(Start(pos), "Hash",
                                                   ReadFull(b, pos, 32))}}}}})

\* readTxOut: value and public key script
ReadTxOut(b, pos) ==
    The({ItemResult(s2, [Value |-> s2.Value, PkScript |-> s2.PkScript]) :
          s2 \in {Field(s1, "PkScript", ReadVarBytes(b, s1.pos, MaxMessagePayload)) :
                   s1 \in {Field(Start(pos), "Value", ReadFull(b, pos, 8))}}})

\* one witness item
ReadWitnessItem(b, pos) ==
    The({[err |-> r.err, item |-> r.bytes, pos |-> r.pos] :
            r \in {ReadVarBytes(b, pos, MaxWitnessItemSize)}})

\* n witness items read one after the other; stops at the first error
RECURSIVE ReadWitnessItems(_, _, _, _)
ReadWitnessItems(b, pos, n, acc) ==
    IF n = 0 THEN [err |-> Nil, items |-> acc, pos |-> pos]
    ELSE The({IF r.err # Nil THEN [err |-> r.err, items |-> acc, pos |-> r.pos]
              ELSE ReadWitnessItems(b, r.pos, n - 1, Append(acc, r.item)) :
                 r \in {ReadWitnessItem(b, pos)}})

\* the witness stack of one input
WitnessItems(b, n) ==
    IF n.err # Nil THEN [err |-> n.err, item |-> <<>>, pos |-> n.pos]
    ELSE IF ~ValueBelow(n.val, MaxWitnessItemsPerInput + 1)
    THEN [err |-> "ErrTooManyWitnessItems", item |-> <<>>, pos |-> n.pos]
    ELSE The({[err |-> r.err, item |-> r.items, pos |-> r.pos] :
                 r \in {ReadWitnessItems(b, n.pos, n.val.n, <<>>)}})

ReadWitness(b, pos) == The({WitnessItems(b, n) : n \in {ReadVarInt(b, pos)}})

\* n inputs read one after the other; stops at the first error
RECURSIVE ReadTxIns(_, _, _, _)
ReadTxIns(b, pos, n, acc) ==
    IF n = 0 THEN [err |-> Nil, items |-> acc, pos |-> pos]
    ELSE The({IF r.err # Nil THEN [err |-> r.err, items |-> acc, pos |-> r.pos]
              ELSE ReadTxIns(b, r.pos, n - 1, Append(acc, r.item)) :
                 r \in {ReadTxIn(b, pos)}})

\* n outputs read one after the other; stops at the first error
RECURSIVE ReadTxOuts(_, _, _, _)
ReadTxOuts(b, pos, n, acc) ==
    IF n = 0 THEN [err |-> Nil, items |-> acc, pos |-> pos]
    ELSE The({IF r.err # Nil THEN [err |-> r.err, items |-> acc, pos |-> r.pos]
              ELSE ReadTxOuts(b, r.pos, n - 1, Append(acc, r.item)) :
                 r \in {ReadTxOut(b, pos)}})

\* n witness stacks read one after the other; stops at the first error
RECURSIVE ReadWitnesses(_, _, _, _)
ReadWitnesses(b, pos, n, acc) ==
    IF n = 0 THEN [err |-> Nil, items |-> acc, pos |-> pos]
    ELSE The({IF r.err # Nil THEN [err |-> r.err, items |-> acc, pos |-> r.pos]
              ELSE ReadWitnesses(b, r.pos, n - 1, Append(acc, r.item)) :
                 r \in {ReadWitness(b, pos)}})

\* BtcDecode runs as a chain of steps over a decode state st: the error so
\* far, the reader's position and the fields read.  A step does nothing once
\* an error is set.
With(st, fields) == fields @@ st

TxFail(st, e, p) == With(st, [err |-> e, pos |-> p])

TxVersion(b, pos) ==
    The({[err |-> version.err, pos |-> version.pos, Version |-> version.bytes,
          HasWitness |-> FALSE, count |-> NoLen, TxIn |-> <<>>, TxOut |-> <<>>,
          LockTime |-> <<>>] :
            version \in {ReadFull(b, pos, 4)}})

\* after the marker (an input count of 0): the flag byte, which must be 1,
\* and the real count
TxFlag(b, st, flag) ==
    IF flag.err # Nil THEN TxFail(st, flag.err, flag.pos)
    ELSE IF flag.bytes[1] # 1 THEN TxFail(st, "ErrBadWitnessFlag", flag.pos)
    ELSE The({IF real.err # Nil THEN TxFail(st, real.err, real.pos)
              ELSE With(st, [pos |-> real.pos, count |-> real.val, HasWitness |-> TRUE]) :
                 real \in {ReadVarInt(b, flag.pos)}})

TxCount(b, st, count) ==
    IF count.err # Nil THEN TxFail(st, count.err, count.pos)
    ELSE IF count.val # NoLen THEN With(st, [pos |-> count.pos, count |-> count.val])
    ELSE The({TxFlag(b, st, flag) : flag \in {ReadFull(b, count.pos, 1)}})

TxMarker(b, st) ==
    IF st.err # Nil THEN st
    ELSE The({TxCount(b, st, count) : count \in {ReadVarInt(b, st.pos)}})

TxIns(b, st) ==
    IF st.err # Nil THEN st
    ELSE IF ~ValueBelow(st.count, MaxTxInPerMessage + 1)
    THEN TxFail(st, "ErrTooManyTxIn", st.pos)
    ELSE The({With(st, [err |-> ins.err, pos |-> ins.pos, TxIn |-> ins.items]) :
                 ins \in {ReadTxIns(b, st.pos, st.count.n, <<>>)}})

TxOutItems(b, st, count) ==
    IF count.err # Nil THEN TxFail(st, count.err, count.pos)
    ELSE IF ~ValueBelow(count.val, MaxTxOutPerMessage + 1)
    THEN TxFail(st, "ErrTooManyTxOut", count.pos)
    ELSE The({With(st, [err |-> outs.err, pos |-> outs.pos, TxOut |-> outs.items]) :
                 outs \in {ReadTxOuts(b, count.pos, count.val.n, <<>>)}})

TxOuts(b, st) ==
    IF st.err # Nil THEN st
    ELSE The({TxOutItems(b, st, count) : count \in {ReadVarInt(b, st.pos)}})

\* with the witness flag set, one witness stack for every input
TxWitnesses(b, st) ==
    IF st.err # Nil \/ ~st.HasWitness THEN st
    ELSE The({IF wits.err # Nil THEN TxFail(st, wits.err, wits.pos)
              ELSE With(st, [pos |-> wits.pos,
                             TxIn |-> [i \in 1..Len(st.TxIn) |->
                                          [st.TxIn[i] EXCEPT !.Witness = wits.items[i]]]]) :
                 wits \in {ReadWitnesses(b, st.pos, Len(st.TxIn), <<>>)}})

TxLockTime(b, st) ==
    IF st.err # Nil THEN st
    ELSE The({With(st, [err |-> lock.err, pos |-> lock.pos, LockTime |-> lock.bytes]) :
                 lock \in {ReadFull(b, st.pos, 4)}})

TxResult(st) ==
    [err |-> st.err, pos |-> st.pos,
     tx |-> IF st.err # Nil THEN NilPtr
            ELSE [Version |-> st.Version, TxIn |-> st.TxIn, TxOut |-> st.TxOut,
                  LockTime |-> st.LockTime, HasWitness |-> st.HasWitness]]

BtcDecode(b, pos) ==
    The({TxResult(s6) :
          s6 \in {TxLockTime(b, s5) :
                   s5 \in {TxWitnesses(b, s4) :
                            s4 \in {TxOuts(b, s3) :
                                     s3 \in {TxIns(b, s2) :
                                              s2 \in {TxMarker(b, s1) :
                                                       s1 \in {TxVersion(b, pos)}}}}}}})

\* MsgTx.BtcEncode, for the generated buffers
RECURSIVE Concat(_)
Concat(ss) == IF ss = <<>> THEN <<>> ELSE Head(ss) \o Concat(Tail(ss))

VarBytes(bs) == WriteVarInt(Len(bs)) \o bs

EncodeTx(t) ==
    t.Version
    \o (IF t.HasWitness THEN <<0, 1>> ELSE <<>>)
    \o WriteVarInt(Len(t.TxIn))
    \o Concat([i \in 1..Len(t.TxIn) |->
                  t.TxIn[i].Hash \o t.TxIn[i].Index \o VarBytes(t.TxIn[i].SignatureScript)
                      \o t.TxIn[i].Sequence])
    \o WriteVarInt(Len(t.TxOut))
    \o Concat([i \in 1..Len(t.TxOut) |-> t.TxOut[i].Value \o VarBytes(t.TxOut[i].PkScript)])
    \o (IF t.HasWitness
        THEN Concat([i \in 1..Len(t.TxIn) |->
                        WriteVarInt(Len(t.TxIn[i].Witness))
                            \o Concat([j \in 1..Len(t.TxIn[i].Witness) |->
                                          VarBytes(t.TxIn[i].Witness[j])])])
        ELSE <<>>)
    \o t.LockTime

\* hex.EncodeToString
HexDigits == <<"0", "1", "2", "3", "4", "5", "6", "7", "8", "9", "a", "b", "c", "d", "e", "f">>

RECURSIVE Hex(_)
Hex(bs) ==
    IF bs = <<>> THEN ""
    ELSE HexDigits[(Head(bs) \div 16) + 1] \o HexDigits[(Head(bs) % 16) + 1] \o Hex(Tail(bs))

Reverse(s) == [i \in 1..Len(s) |-> s[Len(s) + 1 - i]]

\* chainhash.Hash.String: the hexadecimal string of the byte-reversed hash
HashString(h) == Hex(Reverse(h))

\* blockchain.IsCoinBaseTx: one input, whose outpoint is the zero hash with
\* index 0xffffffff
IsCoinBaseTx(t) ==
    /\ Len(t.TxIn) = 1
    /\ t.TxIn[1].Index = Fill(255, 4)
    /\ AllZero(t.TxIn[1].Hash)

\* BitcoinParser.TxFromMsgTx(t, false), without the transaction's own hash
TxFromMsgTx(t) ==
    [Version |-> LEValue(t.Version),
     LockTime |-> LEValue(t.LockTime),
     Vin |-> [i \in 1..Len(t.TxIn) |->
                 IF IsCoinBaseTx(t)
                 THEN [Coinbase |-> Hex(t.TxIn[i].SignatureScript), Txid |-> "", Vout |-> 0,
                       ScriptSig |-> "", Sequence |-> LEValue(t.TxIn[i].Sequence)]
                 ELSE [Coinbase |-> "", Txid |-> HashString(t.TxIn[i].Hash),
                       Vout |-> LEValue(t.TxIn[i].Index),
                       ScriptSig |-> Hex(t.TxIn[i].SignatureScript),
                       Sequence |-> LEValue(t.TxIn[i].Sequence)]],
     Vout |-> [i \in 1..Len(t.TxOut) |->
                  [ValueSat |-> LEValue(t.TxOut[i].Value), JsonValue |-> NoJson, N |-> i - 1,
                   ScriptPubKey |-> Hex(t.TxOut[i].PkScript)]]]

(***************************************************************************)
(* ParseBlock                                                              *)
(***************************************************************************)
\* kind: "ok" (block, nil), "err" (nil, err) or "panic".  pos is the reader's
\* position when the call ends; counted says whether the transaction count
\* was read and decoded is the number of calls of BtcDecode.
BlockResult(kind, err, block, pos, hdr, counted, decoded) ==
    [kind |-> kind, err |-> err, block |-> block, pos |-> pos, hdr |-> hdr,
     counted |-> counted, decoded |-> decoded]

\* the loop over the ntx transactions, from the i-th on (i counts from 0)
RECURSIVE ParseTxs(_, _, _, _, _)
ParseTxs(b, pos, ntx, i, txs) ==
    IF ntx.cls = "num" /\ i >= ntx.n THEN [err |-> Nil, txs |-> txs, pos |-> pos, decoded |-> i]
    ELSE The({IF d.err # Nil
              THEN [err |-> d.err, txs |-> txs, pos |-> d.pos, decoded |-> i + 1]
              ELSE ParseTxs(b, d.pos, ntx, i + 1, Append(txs, parseIndexTx(TxFromMsgTx(d.tx)))) :
                 d \in {BtcDecode(b, pos)}})

\* ParseBlock demanding that the buffer ends with the last transaction
ParseBlockTxs_NoLeftover(b, header, ntx, fitsTxs) ==
    IF ntx.err # Nil
    THEN BlockResult("err", ntx.err, NilPtr, ntx.pos, header, TRUE, 0)
    ELSE IF MakePanics(ntx.val, fitsTxs)
    THEN BlockResult("panic", Nil, NilPtr, ntx.pos, header, TRUE, 0)
    ELSE The({IF r.err # Nil
              THEN BlockResult("err", r.err, NilPtr, r.pos, header, TRUE, r.decoded)
              ELSE IF r.pos # Len(b)
              THEN BlockResult("err", "ErrTrailingBytes", NilPtr, r.pos, header, TRUE, r.decoded)
              ELSE BlockResult("ok", Nil,
                               [Size |-> Len(b), Time |-> header.h.Timestamp, Txs |-> r.txs],
                               r.pos, header, TRUE, r.decoded) :
                 r \in {ParseTxs(b, ntx.pos, ntx.val, 0, <<>>)}})

\* ParseBlock with Size taken from the bytes read instead of len(b)
ParseBlockTxs_SizeRead(b, header, ntx, fitsTxs) ==
    IF ntx.err # Nil
    THEN BlockResult("err", ntx.err, NilPtr, ntx.pos, header, TRUE, 0)
    ELSE IF MakePanics(ntx.val, fitsTxs)
    THEN BlockResult("panic", Nil, NilPtr, ntx.pos, header, TRUE, 0)
    ELSE The({IF r.err # Nil
              THEN BlockResult("err", r.err, NilPtr, r.pos, header, TRUE, r.decoded)
              ELSE BlockResult("ok", Nil,
                               [Size |-> r.pos, Time |-> header.h.Timestamp, Txs |-> r.txs],
                               r.pos, header, TRUE, r.decoded) :
                 r \in {ParseTxs(b, ntx.pos, ntx.val, 0, <<>>)}})

\* ParseBlock returning the transactions decoded so far beside the error
ParseBlockTxs_Partial(b, header, ntx, fitsTxs) ==
    IF ntx.err # Nil
    THEN BlockResult("err", ntx.err, NilPtr, ntx.pos, header, TRUE, 0)
    ELSE IF MakePanics(ntx.val, fitsTxs)
    THEN BlockResult("panic", Nil, NilPtr, ntx.pos, header, TRUE, 0)
    ELSE The({BlockResult(IF r.err # Nil THEN "err" ELSE "ok", r.err,
                          [Size |-> Len(b), Time |-> header.h.Timestamp, Txs |-> r.txs],
                          r.pos, header, TRUE, r.decoded) :
                 r \in {ParseTxs(b, ntx.pos, ntx.val, 0, <<>>)}})

\* ParseBlock once the transaction count was read
ParseBlockTxs(b, header, ntx, fitsTxs) ==
    IF ntx.err # Nil
    THEN BlockResult("err", ntx.err, NilPtr, ntx.pos, header, TRUE, 0)
    ELSE IF MakePanics(ntx.val, fitsTxs)
    THEN BlockResult("panic", Nil, NilPtr, ntx.pos, header, TRUE, 0)
    ELSE The({IF r.err # Nil
              THEN BlockResult("err", r.err, NilPtr, r.pos, header, TRUE, r.decoded)
              ELSE BlockResult("ok", Nil,
                               [Size |-> Len(b), Time |-> header.h.Timestamp, Txs |-> r.txs],
                               r.pos, header, TRUE, r.decoded) :
                 r \in {ParseTxs(b, ntx.pos, ntx.val, 0, <<>>)}})

\* ParseBlock once the header is there
ParseBlockBody(b, header, fitsTxs) ==
    The({ParseBlockTxs(b, header, ntx, fitsTxs) : ntx \in {ReadVarInt(b, header.pos)}})

ParseBlockFrom(b, header, fitsTxs) ==
    IF header.kind # "ok"
    THEN BlockResult(header.kind, header.err, NilPtr, header.pos, header, FALSE, 0)
    ELSE ParseBlockBody(b, header, fitsTxs)

ParseBlock(b, fitsSig, fitsTxs) ==
    The({ParseBlockFrom(b, header, fitsTxs) : header \in {parseBlockHeader(b, 0, fitsSig)}})

\* generated blocks: a header, its trailer when the nonce is 0, a declared
\* count, encoded transactions, and possibly a byte too many or too few
ZeroHash == Fill(0, 32)

WireIn(hash, index, script, seq, wit) ==
    [Hash |-> hash, Index |-> index, SignatureScript |-> script, Sequence |-> seq,
     Witness |-> wit]

WireTx(ins, outs, wit) ==
    [Version |-> LEBytes(1, 4), TxIn |-> ins, TxOut |-> outs, LockTime |-> LEBytes(0, 4),
     HasWitness |-> wit]

WireTxs ==
    {WireTx(<<WireIn(ZeroHash, LEBytes(1, 4), <<194>>, LEBytes(5, 4), <<>>)>>,
            <<[Value |-> LEBytes(7, 8), PkScript |-> <<193>>]>>, FALSE),
     WireTx(<<WireIn(Fill(17, 32), LEBytes(0, 4), <<>>, LEBytes(0, 4), <<>>)>>, <<>>, FALSE),
     WireTx(<<WireIn(ZeroHash, LEBytes(0, 4), <<196, 1>>, LEBytes(0, 4), <<>>),
              WireIn(<<171>> \o Fill(0, 31), LEBytes(2, 4), <<>>, LEBytes(5, 4), <<<<1, 2>>>>)>>,
            <<[Value |-> LEBytes(300, 8), PkScript |-> <<118, 169>>]>>, TRUE),
     WireTx(<<WireIn(ZeroHash, Fill(255, 4), <<4, 255>>, LEBytes(3, 4), <<>>)>>,
            <<[Value |-> LEBytes(50, 8), PkScript |-> <<195>>]>>, FALSE)}

Trailers(h) == IF h.Nonce = 0 THEN {VarBytes(Fill(7, n)) : n \in {0, 3}} ELSE {<<>>}

BlocksOf(h) ==
    {LET whole == HeaderBytes(h) \o sig \o WriteVarInt(Len(txs) + more)
                      \o Concat([i \in 1..Len(txs) |-> EncodeTx(txs[i])]) \o tail
     IN  Take(whole, Len(whole) - cut) :
        sig \in Trailers(h), txs \in SeqsUpTo(WireTxs, MaxTxs), more \in {0, 1},
        tail \in {<<>>, <<0>>}, cut \in {0, 1}}

BlockBuffers == UNION {BlocksOf(h) : h \in Headers}

(***************************************************************************)
(* The state machine                                                       *)
(***************************************************************************)
InitBlock ==
    /\ pc = "ready"
    /\ \E b \in StreamBuffers \cup BlockBuffers : call = [op |-> "ParseBlock", b |-> b]
    /\ ret = Nil

InitHeader ==
    /\ pc = "ready"
    /\ \E b \in StreamBuffers : call = [op |-> "parseBlockHeader", b |-> b]
    /\ ret = Nil

InitTx ==
    /\ pc = "ready"
    /\ \E tx \in Txs :
        /\ call = [op |-> "parseIndexTx", tx |-> tx]
        /\ ret = [tx |-> tx, prev |-> tx, passes |-> 0]

InitAddr ==
    /\ pc = "ready"
    /\ \E d \in SeqsUpTo(DescBytes, MaxDesc), r \in ResolverAnswers :
        call = [op |-> "GetAddressesFromAddrDesc", addrDesc |-> d, resolver |-> r]
    /\ ret = Nil

InitJson ==
    /\ pc = "ready"
    /\ \E m \in JsonMsgs : call = [op |-> "ParseTxFromJson", msg |-> m]
    /\ ret = Nil

parseBlockHeaderCall ==
    /\ pc = "ready"
    /\ call.op = "parseBlockHeader"
    /\ \E fits \in BOOLEAN : ret' = parseBlockHeader(call.b, 0, fits)
    /\ pc' = "done"
    /\ UNCHANGED call

\* one pass of the normalizer over the caller's transaction, mutated in place
parseIndexTxCall ==
    /\ call.op = "parseIndexTx"
    /\ ret.passes < MaxPasses
    /\ ret' = [tx |-> parseIndexTx(ret.tx), prev |-> ret.tx, passes |-> ret.passes + 1]
    /\ pc' = "done"
    /\ UNCHANGED call

GetAddressesFromAddrDescCall ==
    /\ pc = "ready"
    /\ call.op = "GetAddressesFromAddrDesc"
    /\ ret' = GetAddressesFromAddrDesc(call.addrDesc, call.resolver)
    /\ pc' = "done"
    /\ UNCHANGED call

ParseTxFromJsonCall ==
    /\ pc = "ready"
    /\ call.op = "ParseTxFromJson"
    /\ ret' = ParseTxFromJson(call.msg)
    /\ pc' = "done"
    /\ UNCHANGED call

ParseBlockCall ==
    /\ pc = "ready"
    /\ call.op = "ParseBlock"
    /\ \E fitsSig \in BOOLEAN, fitsTxs \in BOOLEAN :
        ret' = ParseBlock(call.b, fitsSig, fitsTxs)
    /\ pc' = "done"
    /\ UNCHANGED call

Init == InitBlock \/ InitHeader \/ InitTx \/ InitAddr \/ InitJson

Next ==
    \/ ParseBlockCall
    \/ parseBlockHeaderCall
    \/ parseIndexTxCall
    \/ GetAddressesFromAddrDescCall
    \/ ParseTxFromJsonCall

Spec == Init /\ [][Next]_vars

(***************************************************************************)
(* Properties                                                              *)
(***************************************************************************)
Done(op) == pc = "done" /\ call.op = op

\* a pass of parseIndexTx has run: ret.prev is the transaction before the
\* latest pass, ret.tx the transaction after it
Normalized == call.op = "parseIndexTx" /\ ret.passes >= 1

\* every input that held the id sentinel before the pass is now a coinbase
\* input carrying it, and no input holds it beside a nonzero index or sequence
RewrittenAs(sentinel) ==
    /\ \A i \in 1..Len(ret.prev.Vin) :
        ret.prev.Vin[i].Txid = sentinel =>
            /\ ret.tx.Vin[i].Coinbase = sentinel
            /\ ret.tx.Vin[i].Txid = ""
            /\ ret.tx.Vin[i].Vout = 0
            /\ ret.tx.Vin[i].Sequence = 0
    /\ \A i \in 1..Len(ret.tx.Vin) :
        ret.tx.Vin[i].Txid = sentinel =>
            ret.tx.Vin[i].Vout = 0 /\ ret.tx.Vin[i].Sequence = 0

\* C1, as stated: the sentinel is the string of 68 zero characters.  After
\* parseIndexTx every input that held it has it as coinbase field, an empty
\* previous-transaction-id, output index 0 and sequence 0, and no input holds it
\* with a nonzero index or sequence.
C1_Sentinel68 == Normalized => RewrittenAs(Zeros68)

\* C1, amended: the same with the sentinel the program reserves, SpendTxID, the
\* string of 64 zero characters.
C1_SentinelRewritten == Normalized => RewrittenAs(SpendTxID)

C1_Witness ==
    /\ Normalized
    /\ \E i \in 1..Len(ret.prev.Vin) :
        /\ ret.prev.Vin[i].Txid = SpendTxID
        /\ ret.prev.Vin[i].Vout # 0
        /\ ret.prev.Vin[i].Sequence # 0

\* the header of the buffer b, read off its bytes
NonceOf(b) == SubSeq(b, 77, 80)

TimeOf(b) == b[69] + 256 * b[70] + 65536 * b[71] + 16777216 * b[72]

HasHeader(b) == Len(b) >= 80

\* the compact-size integer at offset 80 of b: its length in bytes, and its
\* value when it is there (canonical, below 2^31)
LenSize(b) == IF b[81] = 253 THEN 3 ELSE IF b[81] = 254 THEN 5 ELSE IF b[81] = 255 THEN 9 ELSE 1

LenThere(b) ==
    /\ Len(b) >= 80 + 1
    /\ Len(b) >= 80 + LenSize(b)
    /\ b[81] = 253 => b[82] + 256 * b[83] >= 253
    /\ b[81] = 254 => b[84] # 0 \/ b[85] # 0
    /\ b[81] = 255 => \E i \in 86..89 : b[i] # 0

\* the declared length is below 2^31, hence one the buffer may hold
LenSmall(b) ==
    /\ b[81] = 254 => b[85] < 128
    /\ b[81] # 255

LenValue(b) ==
    IF b[81] = 253 THEN b[82] + 256 * b[83]
    ELSE IF b[81] = 254 THEN b[82] + 256 * b[83] + 65536 * b[84] + 16777216 * b[85]
    ELSE b[81]

\* the trailer of b is all there
TrailerThere(b) == LenThere(b) /\ LenSmall(b) /\ Len(b) >= 80 + LenSize(b) + LenValue(b)

\* C2: a header with nonce 0 and declared trailer length L, on a stream that
\* holds 80 + size(varint(L)) + L bytes or more, is decoded and the stream
\* advances by exactly that many bytes; when the length cannot be read or fewer
\* than L trailer bytes remain, the result is a decode error and no header.
C2_TrailerConsumedOrError ==
    (Done("parseBlockHeader") /\ HasHeader(call.b) /\ AllZero(NonceOf(call.b))) =>
        IF TrailerThere(call.b)
        THEN /\ ret.kind = "ok"
             /\ ret.h # NilPtr
             /\ ret.pos = 80 + LenSize(call.b) + LenValue(call.b)
        ELSE /\ ret.kind = "err"
             /\ ret.err # Nil
             /\ ret.h = NilPtr

\* C2 holds of every call in which make([]byte, sigLength) does not panic
C2_UnlessPanic ==
    (Done("parseBlockHeader") /\ HasHeader(call.b) /\ AllZero(NonceOf(call.b))
        /\ ret.kind # "panic") =>
        IF TrailerThere(call.b)
        THEN ret.kind = "ok" /\ ret.pos = 80 + LenSize(call.b) + LenValue(call.b)
        ELSE ret.kind = "err" /\ ret.err # Nil /\ ret.h = NilPtr

\* C3: a header whose nonce is not 0 is decoded, the stream advances by
\* exactly 80 bytes, and neither a trailer length nor trailer bytes are read,
\* whatever follows; the trailer length is read only when the nonce is 0.
C3_NoTrailerUnlessNonceZero ==
    Done("parseBlockHeader") =>
        /\ (HasHeader(call.b) /\ ~AllZero(NonceOf(call.b))) =>
            /\ ret.kind = "ok"
            /\ ret.pos = 80
            /\ ~ret.sigRead
            /\ ret.sigBytes = 0
        /\ ret.sigRead => (HasHeader(call.b) /\ AllZero(NonceOf(call.b)))

C3_Witness ==
    /\ Done("parseBlockHeader")
    /\ Len(call.b) >= 84
    /\ ~AllZero(NonceOf(call.b))
    /\ call.b[77] = 0
    /\ call.b[81] = 3
    /\ ret.pos = 80

\* C4, as stated: whenever ParseBlock returns a block the read position is
\* the end of the buffer; a buffer with bytes left over is rejected.
C4_WholeBufferConsumed ==
    (Done("ParseBlock") /\ ret.kind = "ok") => ret.pos = Len(call.b)

\* the buffer without its last byte
Shorter(b) == SubSeq(b, 1, Len(b) - 1)

\* C4, amended: whenever ParseBlock returns a block the read position is at
\* or before the end of the buffer, and the bytes up to it account for header,
\* trailer, count and transactions: alone they decode to the same transactions.
\* Bytes left over are ignored, not rejected: a buffer that decodes without
\* its last byte decodes with it, to the same transactions, and its Size counts
\* the bytes left over.
C4_LeftoverIgnored ==
    Done("ParseBlock") =>
        /\ ret.kind = "ok" =>
            /\ ret.pos <= Len(call.b)
            /\ ret.block.Size = Len(call.b)
            /\ \E r \in {ParseBlock(Take(call.b, ret.pos), TRUE, TRUE)} :
                r.kind = "ok" /\ r.pos = ret.pos /\ r.block.Txs = ret.block.Txs
        /\ Len(call.b) > 0 =>
            \E r \in {ParseBlock(Shorter(call.b), TRUE, TRUE)} :
                r.kind = "ok" =>
                    /\ ret.kind = "ok"
                    /\ ret.pos = r.pos
                    /\ ret.block.Txs = r.block.Txs
                    /\ ret.block.Size = Len(call.b)

C4_Witness ==
    /\ Done("ParseBlock")
    /\ ret.kind = "ok"
    /\ ret.pos < Len(call.b)
    /\ Len(ret.block.Txs) >= 1

\* the decoding of the i-th transaction of the stream that starts at p, or
\* the first failure before it
RECURSIVE NthDecode(_, _, _)
NthDecode(b, p, i) ==
    The({IF i = 1 \/ d.err # Nil THEN d ELSE NthDecode(b, d.pos, i - 1) :
            d \in {BtcDecode(b, p)}})

\* C5: a block returned for the buffer b with transaction count N has Size
\* len(b), Time the header's timestamp and exactly N transactions in stream
\* order, each the generic decoder's transaction with parseIndexTx applied.  A
\* header with nonce 0, trailer length 3, 3 trailer bytes and count 0 gives a
\* block of no transaction and size 85.
C5_BlockOfBuffer ==
    Done("ParseBlock") =>
        /\ ret.kind = "ok" =>
            \E ntx \in {ReadVarInt(call.b, ret.hdr.pos)} :
                /\ ret.block.Size = Len(call.b)
                /\ ret.block.Time = TimeOf(call.b)
                /\ ntx.val.cls = "num"
                /\ Len(ret.block.Txs) = ntx.val.n
                /\ \A i \in 1..Len(ret.block.Txs) :
                    \E d \in {NthDecode(call.b, ntx.pos, i)} :
                        /\ d.err = Nil
                        /\ ret.block.Txs[i] = parseIndexTx(TxFromMsgTx(d.tx))
        /\ (Len(call.b) = 85 /\ AllZero(NonceOf(call.b)) /\ call.b[81] = 3 /\ call.b[85] = 0) =>
            /\ ret.kind = "ok"
            /\ ret.block.Txs = <<>>
            /\ ret.block.Size = 85
            /\ ret.block.Time = TimeOf(call.b)

C5_Witness ==
    /\ Done("ParseBlock")
    /\ ret.kind = "ok"
    /\ Len(ret.block.Txs) = 2
    /\ ret.block.Txs[1] # ret.block.Txs[2]
    /\ ret.block.Txs[2].Vin[1].Coinbase = SpendTxID
    /\ ret.pos < Len(call.b)
    /\ ret.block.Time = GenesisBlockTime

\* the first transaction of the stream at p that fails to decode, among the
\* n announced (n is a number, or more than any buffer holds): its number,
\* counted from 1, and its error; number 0 when none fails
RECURSIVE FirstFailure(_, _, _, _)
FirstFailure(b, p, n, i) ==
    IF n.cls = "num" /\ i > n.n THEN [i |-> 0, err |-> Nil]
    ELSE The({IF d.err # Nil THEN [i |-> i, err |-> d.err]
              ELSE FirstFailure(b, d.pos, n, i + 1) :
                 d \in {BtcDecode(b, p)}})

LabelOf(byte) ==
    CASE byte = 193 -> "Zeromint"
      [] byte = 194 -> "Zerospend"
      [] byte = 195 -> "Sigmamint"
      [] byte = 196 -> "Sigmaspend"

\* C7: a descriptor whose first byte is 0xC1 .. 0xC4 gives exactly the label
\* of that byte, not searchable, without error and without a call of the
\* generic resolver, whatever its other bytes; an empty descriptor or another
\* first byte gives exactly the generic resolver's addresses, flag and error.
C7_ReservedBeforeResolver ==
    Done("GetAddressesFromAddrDesc") =>
        IF Len(call.addrDesc) > 0 /\ call.addrDesc[1] \in 193..196
        THEN /\ ret.addresses = <<LabelOf(call.addrDesc[1])>>
             /\ ~ret.searchable
             /\ ret.err = Nil
             /\ ret.calls = 0
        ELSE /\ ret.addresses = call.resolver.addresses
             /\ ret.searchable = call.resolver.searchable
             /\ ret.err = call.resolver.err
             /\ ret.calls = 1

C7_Witness ==
    /\ Done("GetAddressesFromAddrDesc")
    /\ Len(call.addrDesc) = 2
    /\ call.addrDesc[1] = 193
    /\ call.addrDesc[2] = 118
    /\ call.resolver.searchable
    /\ call.resolver.addresses # <<>>
    /\ ret.addresses = <<"Zeromint">>

\* C8: after a successful ParseTxFromJson every output has an empty JsonValue
\* and the satoshi amount the amount conversion gives for the decimal value of
\* the JSON ("1.5" gives 150000000), and the inputs are those parseIndexTx makes
\* of the JSON's inputs.
C8_JsonAmounts ==
    (Done("ParseTxFromJson") /\ ret.err = Nil) =>
        /\ Len(ret.tx.Vout) = Len(call.msg.doc.Vout)
        /\ \A i \in 1..Len(ret.tx.Vout) :
            /\ ret.tx.Vout[i].JsonValue = <<>>
            /\ ret.tx.Vout[i].ValueSat = AmountToBigInt(call.msg.doc.Vout[i].JsonValue).n
            /\ call.msg.doc.Vout[i].JsonValue = <<"1", ".", "5">> =>
                ret.tx.Vout[i].ValueSat = 150000000
        /\ ret.tx.Vin = parseIndexTx(call.msg.doc).Vin
        /\ \A i \in 1..Len(ret.tx.Vin) : ret.tx.Vin[i].Txid # SpendTxID

C8_Witness ==
    /\ Done("ParseTxFromJson")
    /\ ret.err = Nil
    /\ Len(ret.tx.Vout) = 2
    /\ call.msg.doc.Vout[1].JsonValue = <<"1", ".", "5">>
    /\ ret.tx.Vout[1].ValueSat = 150000000
    /\ Len(ret.tx.Vin) = 1
    /\ ret.tx.Vin[1].Coinbase = SpendTxID

\* C9: parseIndexTx leaves every input whose previous-transaction-id is not
\* the sentinel SpendTxID as it was, in all its fields, and leaves the outputs
\* and the number and order of the inputs as they were.
C9_OthersUntouched ==
    Normalized =>
        /\ Len(ret.tx.Vin) = Len(ret.prev.Vin)
        /\ \A i \in 1..Len(ret.prev.Vin) :
            ret.prev.Vin[i].Txid # SpendTxID => ret.tx.Vin[i] = ret.prev.Vin[i]
        /\ \A i \in 1..Len(ret.prev.Vin) :
            ret.prev.Vin[i].Txid = SpendTxID =>
                /\ ret.tx.Vin[i].Coinbase = ret.prev.Vin[i].Txid
                /\ ret.tx.Vin[i].ScriptSig = ret.prev.Vin[i].ScriptSig
        /\ ret.tx.Vout = ret.prev.Vout
        /\ ret.tx.Version = ret.prev.Version
        /\ ret.tx.LockTime = ret.prev.LockTime

C9_Witness ==
    /\ Normalized
    /\ ret.passes = 1
    /\ Len(ret.prev.Vin) = 2
    /\ ret.prev.Vin[1].Txid = SpendTxID
    /\ ret.prev.Vin[2].Txid = RealTxID
    /\ ret.prev.Vin[2].Vout # 0
    /\ ret.prev.Vin[2].Sequence # 0
    /\ ret.prev.Vout # <<>>
    /\ ret.tx # ret.prev

\* C10: parseIndexTx is idempotent: a second pass leaves the transaction as
\* the first pass made it, and after the first pass no input has the sentinel
\* as previous-transaction-id.
C10_Idempotent ==
    call.op = "parseIndexTx" =>
        /\ ret.passes >= 2 => ret.tx = ret.prev
        /\ ret.passes >= 1 => \A i \in 1..Len(ret.tx.Vin) : ret.tx.Vin[i].Txid # SpendTxID

C10_Witness ==
    /\ call.op = "parseIndexTx"
    /\ ret.passes = 2
    /\ ret.tx # call.tx
    /\ \E i \in 1..Len(call.tx.Vin) : call.tx.Vin[i].Txid = SpendTxID

=============================================================================
